---- MODULE Spec2Model ----
(***************************************************************************)
(* A model of smsparser.py: the SMS node tree (Suite, Family, Task), its   *)
(* path bookkeeping, the path resolver get_node, the trigger parser and    *)
(* evaluator, the Meter, in-limit resolution and the cdp serializer.       *)
(*                                                                         *)
(* Representation of Python values                                         *)
(*   - a node reference is a positive integer, None is NoneRef;            *)
(*   - a string that the code splits on '/' (a path) is kept as the        *)
(*     sequence s.split('/'): '/' is <<"", "">>, '' is <<"">>, '/f/t' is   *)
(*     <<"", "f", "t">>, 'a/b' is <<"a", "b">>.  split and join are        *)
(*     inverse bijections between strings and non-empty sequences of       *)
(*     slash-free segments, so nothing is lost;                            *)
(*   - the objects of one interpreter are the record heap, one function    *)
(*     per attribute, indexed by node reference.                           *)
(***************************************************************************)
EXTENDS Integers, Sequences, FiniteSets, TLC

VARIABLES
    phase,      \* "new" before Suite(...) has run, then "built" or "failed"
    parse_obj,  \* the parse record handed to the constructors
    heap,       \* the attributes of every node object
    last,       \* outcome of the last call: what was called, what it raised
    query,      \* the node and path string a lookup is made with
    meter,      \* one Meter object
    text,       \* the text cdp_definition() returned
    rebuilt     \* the tree built from that text

vars == <<phase, parse_obj, heap, last, query, meter, text, rebuilt>>

\* ---------------------------------------------------------------- bounds
MaxNodes == 3       \* families and tasks declared in one definition
MaxNew == 1         \* tasks constructed by name, Task(name=...)
MaxByName == 2      \* nodes constructed by name where containers are watched

Names == {"a", "b"}

\* ------------------------------------------------------- Python basics
NoneRef == 0
SuiteRef == 1

Range(s) == {s[i] : i \in DOMAIN s}

\* list.remove(x): drops the first occurrence (the caller checks presence)
RECURSIVE ListRemove(_, _)
ListRemove(s, x) ==
    IF s = <<>> THEN <<>>
    ELSE IF Head(s) = x THEN Tail(s)
    ELSE <<Head(s)>> \o ListRemove(Tail(s), x)

\* '/'.join(l): the empty list joins to ''
Join(l) == IF l = <<>> THEN <<"">> ELSE l

\* s.startswith('/')
StartsWithSlash(s) == Len(s) >= 2 /\ s[1] = ""

\* s[1:] of a string that starts with '/'
DropSlash(s) == Tail(s)

\* ------------------------------------------------------ SMSNode: paths
\* parent.setter, the path it assigns (the node's name is nm)
ParentSetterPath_DoubleSlash(ppath, hasParent, nm) ==
    IF ~hasParent THEN <<nm>> ELSE Append(ppath, nm)

ParentSetterPath(ppath, hasParent, nm) ==
    IF ~hasParent THEN <<nm>>
    ELSE IF ppath = <<"", "">>
         THEN <<"", nm>>          \* '/' + name
         ELSE Append(ppath, nm)   \* path + '/' + name

\* name.setter, the path it assigns: '/'.join(old.split('/')[:-1]) + '/' + name
NameSetterPath(old, nm) ==
    IF Len(old) = 1 THEN <<"", nm>>
    ELSE Append(SubSeq(old, 1, Len(old) - 1), nm)

\* --------------------------------------------------- parse records
\* One record per declared block, in declaration order; record 1 is the
\* suite, up is the index of the enclosing block.
NodeRec(k, nm, up) ==
    [kind |-> k, name |-> nm, up |-> up,
     trigger |-> <<>>,      \* the tokens of the trigger line, <<>> if none
     inlimits |-> <<>>,     \* [path, name] per inlimit clause
     limits |-> <<>>,       \* [name, cap] per limit clause
     variables |-> <<>>]    \* [name, value] per edit clause; a value is
                            \* the sequence of its words

ValidExtension(d, r) ==
    /\ r.kind = "family" => d[r.up].kind \in {"suite", "family"}
    /\ r.kind = "task" => d[r.up].kind = "family"
    /\ \A i \in DOMAIN d :
          (d[i].up = r.up /\ d[i].kind = r.kind) => d[i].name # r.name

Extensions(d) ==
    {r \in {NodeRec(k, nm, up) : k \in {"family", "task"}, nm \in Names,
                                 up \in DOMAIN d} : ValidExtension(d, r)}

RECURSIVE DefsOfSize(_)
DefsOfSize(n) ==
    IF n = 0 THEN {<<NodeRec("suite", "s", NoneRef)>>}
    ELSE {Append(d, r) : <<d, r>> \in
            UNION {{<<d, r>> : r \in Extensions(d)} : d \in DefsOfSize(n - 1)}}

TreeDefs == UNION {DefsOfSize(n) : n \in 0..MaxNodes}

\* ------------------------------------------------------ construction
ChildrenOf(d, n, k) ==
    LET idx == {i \in DOMAIN d : d[i].up = n /\ d[i].kind = k}
        RECURSIVE Asc(_, _)
        Asc(i, acc) == IF i > Len(d) THEN acc
                       ELSE Asc(i + 1, IF i \in idx THEN Append(acc, i) ELSE acc)
    IN Asc(1, <<>>)

\* SMSNode.__init__ for a node built from a parse record: the parent setter
\* runs while the name is still '', then the name setter runs.
RECURSIVE BuiltPath(_, _)
BuiltPath(d, n) ==
    IF d[n].kind = "suite" THEN <<"", "">>     \* Suite.__init__: _path = '/'
    ELSE NameSetterPath(
            ParentSetterPath(BuiltPath(d, d[n].up), TRUE, ""), d[n].name)

\* The containers that are class attributes: SMSNode.variables = dict() and
\* Family.tasks = [].  An instance that never assigns the attribute reads
\* and updates the container of its class.
ClassAttrs == [variables |-> <<>>, tasks |-> <<>>]

\* the attributes __init__ assigns on a node built from a parse record
OwnWhenParsed == {"variables", "tasks"}

\* The heap: per attribute, the value each node reads.  own[n] holds the
\* names of the container attributes that are instance attributes of n;
\* for the others the value read is the class attribute, kept in
\* class_attrs.
EmptyHeap ==
    [kind |-> <<>>, name |-> <<>>, parent |-> <<>>, path |-> <<>>,
     status |-> <<>>, families |-> <<>>, tasks |-> <<>>,
     limits |-> <<>>, in_limits |-> <<>>,
     trigger_exp |-> <<>>, trigger |-> <<>>, variables |-> <<>>,
     own |-> <<>>, class_attrs |-> ClassAttrs]

\* class attribute NodeWithTriggers.trigger = ('', [])
NoTrigger == [exp |-> <<>>, nodes |-> <<>>]

\* Family._parse_limits: a dict, a later clause of the same name overwrites
LimitsDict(clauses) ==
    [nm \in {clauses[i].name : i \in DOMAIN clauses} |->
        LET hits == {i \in DOMAIN clauses : clauses[i].name = nm}
        IN clauses[CHOOSE i \in hits : \A j \in hits : j <= i].cap]

\* SMSNode._get_variables: a dict from the names of the edit clauses
VariablesDict(clauses) ==
    [nm \in {clauses[i].name : i \in DOMAIN clauses} |->
        LET hits == {i \in DOMAIN clauses : clauses[i].name = nm}
        IN clauses[CHOOSE i \in hits : \A j \in hits : j <= i].value]

\* The node objects of the structural pass: the recursive constructors of
\* Suite.__init__ and Family.__init__, before in-limits and triggers.
Structure(d) ==
    [kind     |-> [n \in DOMAIN d |-> d[n].kind],
     name     |-> [n \in DOMAIN d |-> d[n].name],
     parent   |-> [n \in DOMAIN d |-> d[n].up],
     path     |-> [n \in DOMAIN d |-> BuiltPath(d, n)],
     status   |-> [n \in DOMAIN d |-> "unknown"],
     families |-> [n \in DOMAIN d |-> ChildrenOf(d, n, "family")],
     tasks    |-> [n \in DOMAIN d |-> ChildrenOf(d, n, "task")],
     limits   |-> [n \in DOMAIN d |-> LimitsDict(d[n].limits)],
     in_limits |-> [n \in DOMAIN d |-> <<>>],
     trigger_exp |-> [n \in DOMAIN d |-> d[n].trigger],
     trigger  |-> [n \in DOMAIN d |-> NoTrigger],
     variables |-> [n \in DOMAIN d |-> VariablesDict(d[n].variables)],
     own      |-> [n \in DOMAIN d |-> OwnWhenParsed],
     class_attrs |-> ClassAttrs]

Refs(h) == DOMAIN h.kind
FamiliesOf(h) == {n \in Refs(h) : h.kind[n] = "family"}
TasksOf(h) == {n \in Refs(h) : h.kind[n] = "task"}

\* The nodes that read the same container object as n for the attribute:
\* n alone when the attribute is n's own, else every node of the class that
\* has no attribute of its own (SMSNode for variables, Family for tasks).
SharesWith(h, n, attr) ==
    IF attr \in h.own[n] THEN {n}
    ELSE {m \in Refs(h) : /\ attr \notin h.own[m]
                          /\ (attr = "variables" \/ h.kind[m] = h.kind[n])}

\* an in-place update of n.tasks (append, remove)
SetTasks(h, n, v) ==
    [h EXCEPT !.tasks = [m \in DOMAIN @ |->
                            IF m \in SharesWith(h, n, "tasks") THEN v ELSE @[m]],
              !.class_attrs.tasks = IF "tasks" \in h.own[n] THEN @ ELSE v]

\* dict.update
DictUpdate(dict, upd) ==
    [k \in DOMAIN dict \cup DOMAIN upd |->
        IF k \in DOMAIN upd THEN upd[k] ELSE dict[k]]

\* n.variables.update(upd)
UpdateVariables(h, n, upd) ==
    LET v == DictUpdate(h.variables[n], upd)
    IN [h EXCEPT !.variables = [m \in DOMAIN @ |->
                     IF m \in SharesWith(h, n, "variables") THEN v ELSE @[m]],
                 !.class_attrs.variables =
                     IF "variables" \in h.own[n] THEN @ ELSE v]

\* Task(name=nm): parent None gives path '', the name setter then gives '/nm'.
\* With no parse record SMSNode.__init__ assigns no variables, so the task
\* reads the class attribute SMSNode.variables.
NewTaskByName(h, nm) ==
    [h EXCEPT !.kind = Append(@, "task"),
              !.name = Append(@, nm),
              !.parent = Append(@, NoneRef),
              !.path = Append(@, NameSetterPath(
                                    ParentSetterPath(<<>>, FALSE, ""), nm)),
              !.status = Append(@, "unknown"),
              !.families = Append(@, <<>>),
              !.tasks = Append(@, <<>>),
              !.limits = Append(@, <<>>),
              !.in_limits = Append(@, <<>>),
              !.trigger_exp = Append(@, <<>>),
              !.trigger = Append(@, NoTrigger),
              !.variables = Append(@, h.class_attrs.variables),
              !.own = Append(@, {})]

\* Task(name=nm, variables=upd): self.variables.update(upd)
NewTaskWithVariables(h, nm, upd) ==
    UpdateVariables(NewTaskByName(h, nm), Len(h.kind) + 1, upd)

\* Family(name=nm): no parse record, so families, tasks, limits and
\* in_limits are the class attributes of Family (of these only tasks is
\* ever updated in place) and variables is SMSNode.variables.
NewFamilyByName(h, nm) ==
    [h EXCEPT !.kind = Append(@, "family"),
              !.name = Append(@, nm),
              !.parent = Append(@, NoneRef),
              !.path = Append(@, NameSetterPath(
                                    ParentSetterPath(<<>>, FALSE, ""), nm)),
              !.status = Append(@, "unknown"),
              !.families = Append(@, <<>>),
              !.tasks = Append(@, h.class_attrs.tasks),
              !.limits = Append(@, <<>>),
              !.in_limits = Append(@, <<>>),
              !.trigger_exp = Append(@, <<>>),
              !.trigger = Append(@, NoTrigger),
              !.variables = Append(@, h.class_attrs.variables),
              !.own = Append(@, {})]

\* ------------------------------------------------- Family: add / remove
\* task.parent = p (p may be None)
SetParent(h, t, p) ==
    [h EXCEPT !.parent[t] = p,
              !.path[t] = ParentSetterPath(
                             IF p = NoneRef THEN <<>> ELSE h.path[p],
                             p # NoneRef, h.name[t])]

Ok(h) == [h |-> h, raised |-> ""]
Raise(h, e) == [h |-> h, raised |-> e]

RemoveTask(h, f, t) ==
    IF t \notin Range(h.tasks[f]) THEN Raise(h, "ValueError")
    ELSE Ok(SetParent(SetTasks(h, f, ListRemove(h.tasks[f], t)), t, NoneRef))

AddTask_NoDetach(h, f, t) ==
    IF t \in Range(h.tasks[f]) THEN Ok(h)
    ELSE Ok(SetParent(SetTasks(h, f, Append(h.tasks[f], t)), t, f))

AddTask(h, f, t) ==
    IF t \in Range(h.tasks[f]) THEN Ok(h)
    ELSE LET r == IF h.parent[t] # NoneRef
                  THEN RemoveTask(h, h.parent[t], t)
                  ELSE Ok(h)
         IN IF r.raised # "" THEN Raise(h, r.raised)
            ELSE Ok(SetParent(SetTasks(r.h, f, Append(r.h.tasks[f], t)), t, f))

\* SMSNode.name = nm (the name setter rewrites the last segment of _path)
SetName(h, n, nm) ==
    [h EXCEPT !.name[n] = nm,
              !.path[n] = NameSetterPath(h.path[n], nm)]

\* ------------------------------------------------------ path resolver
\* get_suite: Suite returns itself, a node without parent returns None
RECURSIVE GetSuite(_, _)
GetSuite(h, n) ==
    IF h.kind[n] = "suite" THEN n
    ELSE IF h.parent[n] = NoneRef THEN NoneRef
    ELSE GetSuite(h, h.parent[n])

\* the list a Suite or Family searches
NodeList(h, n) ==
    IF h.kind[n] = "suite" THEN h.families[n]
    ELSE h.tasks[n] \o h.families[n]

\* Suite/Family/Task._node_from_path.  The loop over node_list has no break:
\* every child with the name overwrites possible_node.
RECURSIVE NodeFromPath(_, _, _)
NodeFromPath(h, n, p) ==
    IF h.kind[n] = "task"
    THEN IF p = h.path[n] \/ p = <<"">> THEN n ELSE NoneRef
    ELSE IF p = <<"">> \/ p = <<".">> THEN n
    ELSE LET node_list == NodeList(h, n)
             new_path == Join(Tail(p))
             RECURSIVE Loop(_, _)
             Loop(i, possible_node) ==
                 IF i > Len(node_list) THEN possible_node
                 ELSE Loop(i + 1,
                           IF h.name[node_list[i]] = p[1]
                           THEN NodeFromPath(h, node_list[i], new_path)
                           ELSE possible_node)
         IN Loop(1, NoneRef)

Found(n) == [result |-> n, raised |-> ""]
Raised(e) == [result |-> NoneRef, raised |-> e]

\* the for loop of get_node over path.split('/'): every '..' token, wherever
\* it stands, moves base_node up; None.parent raises AttributeError
RECURSIVE ClimbDotDot(_, _, _, _)
ClimbDotDot(h, toks, base_node, rel_path_list) ==
    IF toks = <<>>
    THEN [base |-> base_node, rel |-> rel_path_list, raised |-> ""]
    ELSE IF Head(toks) = ".."
         THEN IF base_node = NoneRef
              THEN [base |-> NoneRef, rel |-> rel_path_list,
                    raised |-> "AttributeError"]
              ELSE ClimbDotDot(h, Tail(toks), h.parent[base_node],
                               rel_path_list)
         ELSE ClimbDotDot(h, Tail(toks), base_node,
                          Append(rel_path_list, Head(toks)))

RECURSIVE GetNode(_, _, _)
GetNode(h, n, p) ==
    IF StartsWithSlash(p)
    THEN LET base_node == GetSuite(h, n)
         IN IF base_node = NoneRef THEN Raised("AttributeError")
            ELSE GetNode(h, base_node, DropSlash(p))
    ELSE LET start == IF h.parent[n] # NoneRef THEN h.parent[n]
                      ELSE GetSuite(h, n)
             c == ClimbDotDot(h, p, start, <<>>)
         IN IF c.raised # "" THEN Raised(c.raised)
            ELSE IF c.base = NoneRef THEN Found(NoneRef)
            ELSE Found(NodeFromPath(h, c.base, Join(c.rel)))

\* ----------------------------------------------------------- triggers
\* One whitespace-separated token of a trigger line: open '(' characters,
\* a body (a string, kept as its split on '/'), close ')' characters;
\* quoted tells that the body stands between double quotes.
Tok(o, body, c) ==
    [open |-> o, body |-> body, close |-> c, quoted |-> FALSE]

Word(w) == Tok(0, <<w>>, 0)

QuotedTok(body) ==
    [open |-> 0, body |-> body, close |-> 0, quoted |-> TRUE]

\* Whether the text after the '(' characters starts with a character of
\* [\w\d./=].  The bodies used here are names, '.', '..', status words, AND,
\* OR, '==' and paths of these (all inside the class) and '!=' (starts
\* outside it); a quoted body starts with '"' (outside it).
StartsInClass(tok) == ~tok.quoted /\ tok.body # <<"!=">>

\* re.compile(r'(\(*)([\w\d./=]*)(\)*)').search(tok).groups(): the match is
\* at position 0; when the body group matches nothing the ')' group matches
\* nothing either, unless the ')' characters follow at once.
RegexGroups(tok) ==
    IF StartsInClass(tok)
    THEN [open |-> tok.open, body |-> tok.body, close |-> tok.close]
    ELSE [open |-> tok.open, body |-> <<"">>, close |-> 0]

\* A token of the Python expression new_exp.  "slot" is the text "%s"
\* (quotes included) that the % operator fills later.
Py(t, v) == [t |-> t, v |-> v]

Repeat(x, n) == [i \in 1..n |-> x]

\* NodeWithTriggers._parse_trigger
RECURSIVE ParseTokens(_, _, _, _, _)
ParseTokens(h, n, toks, new_exp, nodes) ==
    IF toks = <<>>
    THEN [trigger |-> [exp |-> new_exp, nodes |-> nodes], raised |-> ""]
    ELSE LET g == RegexGroups(Head(toks))
             opens == Repeat(Py("(", ""), g.open)
             closes == Repeat(Py(")", ""), g.close)
             i == g.body
         IN IF i = <<"">>
            THEN ParseTokens(h, n, Tail(toks), new_exp \o opens \o closes,
                             nodes)
            ELSE IF i \in {<<"complete">>, <<"unknown">>}
            THEN ParseTokens(h, n, Tail(toks),
                    new_exp \o opens \o <<Py("lit", i[1])>> \o closes, nodes)
            ELSE IF i \in {<<"AND">>, <<"OR">>}
            THEN ParseTokens(h, n, Tail(toks),
                    new_exp \o opens
                       \o <<Py(IF i = <<"AND">> THEN "and" ELSE "or", "")>>
                       \o closes, nodes)
            ELSE IF i = <<"==">>
            THEN ParseTokens(h, n, Tail(toks),
                    new_exp \o opens \o <<Py("==", "")>> \o closes, nodes)
            ELSE LET r == GetNode(h, n, i)
                 IN IF r.raised # ""
                    THEN [trigger |-> NoTrigger, raised |-> r.raised]
                    ELSE ParseTokens(h, n, Tail(toks),
                            new_exp \o opens \o <<Py("slot", "")>> \o closes,
                            Append(nodes, r.result))

ParseTrigger(h, n) == ParseTokens(h, n, h.trigger_exp[n], <<>>, <<>>)

\* exp % tuple(...): the k-th "%s" becomes the k-th value, inside its quotes
RECURSIVE Substitute(_, _)
Substitute(exp, values) ==
    IF exp = <<>> THEN <<>>
    ELSE IF Head(exp).t = "slot"
         THEN <<Py("lit", Head(values))>> \o Substitute(Tail(exp), Tail(values))
         ELSE <<Head(exp)>> \o Substitute(Tail(exp), values)

\* Python values.  A string is the sequence of the literals concatenated to
\* make it: the status words are a prefix code, so two such sequences are
\* equal exactly when the strings are.
StrVal(ws) == [k |-> "str", s |-> ws, b |-> FALSE]
BoolVal(b) == [k |-> "bool", s |-> <<>>, b |-> b]
TupleVal == [k |-> "tuple", s |-> <<>>, b |-> FALSE]
NoValue == [k |-> "none", s |-> <<>>, b |-> FALSE]

Truthy(v) ==
    CASE v.k = "bool" -> v.b
      [] v.k = "str" -> v.s # <<>>
      [] OTHER -> FALSE

PyFail == [ok |-> FALSE, val |-> NoValue, rest |-> <<>>]
PyOk(v, rest) == [ok |-> TRUE, val |-> v, rest |-> rest]

IsTok(ts, t) == ts # <<>> /\ Head(ts).t = t

\* eval() of the expression: or_test, and_test, comparison (chained ==),
\* atom (adjacent string literals concatenate; parentheses; the empty tuple)
RECURSIVE PyOrTest(_), PyOrRest(_, _), PyAndTest(_), PyAndRest(_, _),
          PyComparison(_), PyCmpRest(_, _, _, _), PyAtom(_), PyStrings(_, _)

PyStrings(ts, acc) ==
    IF IsTok(ts, "lit") THEN PyStrings(Tail(ts), Append(acc, Head(ts).v))
    ELSE PyOk(StrVal(acc), ts)

PyAtom(ts) ==
    IF IsTok(ts, "lit") THEN PyStrings(ts, <<>>)
    ELSE IF IsTok(ts, "(")
    THEN IF IsTok(Tail(ts), ")") THEN PyOk(TupleVal, Tail(Tail(ts)))
         ELSE LET r == PyOrTest(Tail(ts))
              IN IF r.ok /\ IsTok(r.rest, ")")
                 THEN PyOk(r.val, Tail(r.rest))
                 ELSE PyFail
    ELSE PyFail

PyCmpRest(ts, left, acc, any) ==
    IF IsTok(ts, "==")
    THEN LET r == PyAtom(Tail(ts))
         IN IF ~r.ok THEN PyFail
            ELSE PyCmpRest(r.rest, r.val,
                           IF any /\ ~acc.b THEN acc
                           ELSE BoolVal(left = r.val), TRUE)
    ELSE PyOk(IF any THEN acc ELSE left, ts)

PyComparison(ts) ==
    LET a == PyAtom(ts)
    IN IF a.ok THEN PyCmpRest(a.rest, a.val, a.val, FALSE) ELSE PyFail

PyAndRest(ts, left) ==
    IF IsTok(ts, "and")
    THEN LET r == PyComparison(Tail(ts))
         IN IF ~r.ok THEN PyFail
            ELSE PyAndRest(r.rest, IF Truthy(left) THEN r.val ELSE left)
    ELSE PyOk(left, ts)

PyAndTest(ts) ==
    LET c == PyComparison(ts)
    IN IF c.ok THEN PyAndRest(c.rest, c.val) ELSE PyFail

PyOrRest(ts, left) ==
    IF IsTok(ts, "or")
    THEN LET r == PyAndTest(Tail(ts))
         IN IF ~r.ok THEN PyFail
            ELSE PyOrRest(r.rest, IF Truthy(left) THEN left ELSE r.val)
    ELSE PyOk(left, ts)

PyOrTest(ts) ==
    LET c == PyAndTest(ts)
    IN IF c.ok THEN PyOrRest(c.rest, c.val) ELSE PyFail

PyEval(ts) ==
    LET r == PyOrTest(ts)
    IN IF r.ok /\ r.rest = <<>> THEN [raised |-> "", value |-> r.val]
       ELSE [raised |-> "SyntaxError", value |-> NoValue]

\* NodeWithTriggers.evalute_trigger: n.status of a None operand raises
EvaluteTrigger(h, n) ==
    LET exp == h.trigger[n].exp
        nodes == h.trigger[n].nodes
    IN IF exp = <<>> THEN [raised |-> "", value |-> BoolVal(TRUE)]
       ELSE IF NoneRef \in Range(nodes)
       THEN [raised |-> "AttributeError", value |-> NoValue]
       ELSE PyEval(Substitute(exp,
                      [i \in DOMAIN nodes |-> h.status[nodes[i]]]))

\* ----------------------------------------------------------- in-limits
RECURSIVE Ancestors(_, _)
Ancestors(h, n) ==
    IF h.parent[n] = NoneRef THEN {}
    ELSE {h.parent[n]} \cup Ancestors(h, h.parent[n])

\* What family f sees while its __init__ runs _parse_in_limits: its
\* ancestors are still inside the list comprehensions that build their
\* children, so their families, tasks and limits are the class attributes
\* (Suite.families, Family.families, Family.tasks, Family.limits), all empty.
ConstructionView(h, f) ==
    LET anc == Ancestors(h, f)
        Hide(field) == [m \in DOMAIN field |->
                           IF m \in anc THEN <<>> ELSE field[m]]
    IN [h EXCEPT !.families = Hide(@), !.tasks = Hide(@), !.limits = Hide(@)]

NoLimit == "None"

\* dict.get(key, None)
DictGet(dict, key) == IF key \in DOMAIN dict THEN dict[key] ELSE NoLimit

\* Family._parse_in_limits: node.limits raises AttributeError when node is
\* None and when node is a Suite or a Task, which have no limits attribute
RECURSIVE ParseInLimits(_, _, _, _)
ParseInLimits(h, f, clauses, acc) ==
    IF clauses = <<>> THEN [in_limits |-> acc, raised |-> ""]
    ELSE LET view == ConstructionView(h, f)
             r == GetNode(view, f, Head(clauses).path)
         IN IF r.raised # "" THEN [in_limits |-> <<>>, raised |-> r.raised]
            ELSE IF r.result = NoneRef \/ h.kind[r.result] # "family"
            THEN [in_limits |-> <<>>, raised |-> "AttributeError"]
            ELSE ParseInLimits(h, f, Tail(clauses),
                    Append(acc,
                       [node |-> r.result,
                        limit |-> DictGet(view.limits[r.result],
                                          Head(clauses).name)]))

\* ------------------------------------------------- Suite.__init__
\* The structural pass (with each family's in-limits), then the pass that
\* parses every trigger.  An exception leaves the caller without a Suite.
Build(d) ==
    LET h0 == Structure(d)
        inl == [n \in DOMAIN d |->
                  IF d[n].kind = "family"
                  THEN ParseInLimits(h0, n, d[n].inlimits, <<>>)
                  ELSE [in_limits |-> <<>>, raised |-> ""]]
        h1 == [h0 EXCEPT !.in_limits = [n \in DOMAIN d |-> inl[n].in_limits]]
        trg == [n \in DOMAIN d |->
                  IF d[n].kind \in {"family", "task"}
                  THEN ParseTrigger(h1, n)
                  ELSE [trigger |-> NoTrigger, raised |-> ""]]
    IN IF \E n \in DOMAIN d : inl[n].raised # ""
       THEN Raise(EmptyHeap, "AttributeError")
       ELSE IF \E n \in DOMAIN d : trg[n].raised # ""
       THEN Raise(EmptyHeap, "AttributeError")
       ELSE Ok([h1 EXCEPT !.trigger = [n \in DOMAIN d |-> trg[n].trigger]])

\* ----------------------------------------------------- cdp_definition
\* A line of definition text: keyword, name, and what follows the name (the
\* words of a quoted value, the number of a limit, the tokens of a trigger).
Line(kw, nm, arg) == [kw |-> kw, name |-> nm, arg |-> arg]

\* no text generated yet
NoText == <<>>

\* dict.iteritems(): the keys in some order
RECURSIVE KeysInOrder(_)
KeysInOrder(S) ==
    IF S = {} THEN <<>>
    ELSE LET k == CHOOSE x \in S : TRUE
         IN <<k>> \o KeysInOrder(S \ {k})

\* SMSNode._start_cdp_definition: one line  edit k "v"  per variable
EditLines(h, n) ==
    LET keys == KeysInOrder(DOMAIN h.variables[n])
    IN [i \in DOMAIN keys |-> Line("edit", keys[i], h.variables[n][keys[i]])]

\* Family._start_cdp_definition: the limit lines, then the edit lines
LimitLines(h, n) ==
    LET keys == KeysInOrder(DOMAIN h.limits[n])
    IN [i \in DOMAIN keys |-> Line("limit", keys[i], <<h.limits[n][keys[i]]>>)]

\* exp % tuple([n.path for n in nodes]), as the whitespace-separated tokens
\* of the line: every piece of new_exp but a parenthesis is padded with
\* spaces, literals and paths stand in double quotes, AND and OR are in
\* lower case.  (A run of parentheses is one token; it is listed here as one
\* token per parenthesis, which RegexGroups treats alike.)
RECURSIVE TriggerText(_, _)
TriggerText(exp, paths) ==
    IF exp = <<>> THEN <<>>
    ELSE LET t == Head(exp).t
         IN CASE t = "slot" ->
                    <<QuotedTok(Head(paths))>> \o TriggerText(Tail(exp), Tail(paths))
              [] t = "lit" ->
                    <<QuotedTok(<<Head(exp).v>>)>> \o TriggerText(Tail(exp), paths)
              [] t = "(" -> <<Tok(1, <<"">>, 0)>> \o TriggerText(Tail(exp), paths)
              [] t = ")" -> <<Tok(0, <<"">>, 1)>> \o TriggerText(Tail(exp), paths)
              [] OTHER -> <<Word(t)>> \o TriggerText(Tail(exp), paths)

Flatten(ss) ==
    LET RECURSIVE F(_)
        F(i) == IF i > Len(ss) THEN <<>> ELSE ss[i] \o F(i + 1)
    IN F(1)

\* SMSNode.cdp_definition with the _start/_specific/_end parts of each class.
\* Family._specific_cdp_definition writes tasks then families and no
\* trigger; Task._specific_cdp_definition writes the trigger after the
\* variables; None.path raises AttributeError.
RECURSIVE CdpLines(_, _)
CdpLines(h, n) ==
    LET kind == h.kind[n]
        header == <<Line(kind, h.name[n], <<>>)>>
        start == IF kind = "family" THEN LimitLines(h, n) \o EditLines(h, n)
                 ELSE EditLines(h, n)
        children == IF kind = "suite" THEN h.families[n]
                    ELSE IF kind = "family" THEN h.tasks[n] \o h.families[n]
                    ELSE <<>>
        nodes == h.trigger[n].nodes
        specific ==
            IF kind = "task"
            THEN IF h.trigger[n].exp = <<>> THEN <<>>
                 ELSE <<Line("trigger", "",
                          TriggerText(h.trigger[n].exp,
                             [i \in DOMAIN nodes |-> h.path[nodes[i]]]))>>
            ELSE Flatten([i \in DOMAIN children |-> CdpLines(h, children[i])])
    IN header \o start \o specific \o <<Line("end", kind, <<>>)>>

RECURSIVE CdpRaises(_, _)
CdpRaises(h, n) ==
    \/ /\ h.kind[n] = "task"
       /\ h.trigger[n].exp # <<>>
       /\ NoneRef \in Range(h.trigger[n].nodes)
    \/ \E c \in Range(h.families[n]) \cup Range(h.tasks[n]) : CdpRaises(h, c)

CdpDefinition(h) ==
    IF CdpRaises(h, SuiteRef) THEN [text |-> NoText, raised |-> "AttributeError"]
    ELSE [text |-> CdpLines(h, SuiteRef), raised |-> ""]

\* ------------------------------------------------------ the grammar
\* Parsing of the texts cdp_definition writes.  In sms_task the trigger is
\* part of  identifier + Optional(trigger_value), so a trigger line is taken
\* by the task only right after the task's name; after edit lines the task
\* block has ended, the enclosing family takes the trigger line as its own
\* and then meets 'endtask' where it needs 'endfamily': ParseException.
RECURSIVE ParseLines(_, _, _, _)
ParseLines(lines, d, stack, afterName) ==
    IF lines = <<>> THEN [d |-> d, raised |-> ""]
    ELSE LET l == Head(lines)
             top == IF stack = <<>> THEN NoneRef ELSE stack[Len(stack)]
         IN CASE l.kw \in {"suite", "family", "task"} ->
                    ParseLines(Tail(lines),
                               Append(d, NodeRec(l.kw, l.name, top)),
                               Append(stack, Len(d) + 1), l.kw = "task")
              [] l.kw = "end" ->
                    ParseLines(Tail(lines), d,
                               SubSeq(stack, 1, Len(stack) - 1), FALSE)
              [] l.kw = "edit" ->
                    ParseLines(Tail(lines),
                       [d EXCEPT ![top].variables =
                           Append(@, [name |-> l.name, value |-> l.arg])],
                       stack, FALSE)
              [] l.kw = "limit" ->
                    ParseLines(Tail(lines),
                       [d EXCEPT ![top].limits =
                           Append(@, [name |-> l.name, cap |-> l.arg[1]])],
                       stack, FALSE)
              [] l.kw = "trigger" ->
                    IF afterName
                    THEN ParseLines(Tail(lines),
                            [d EXCEPT ![top].trigger = l.arg], stack, FALSE)
                    ELSE [d |-> <<>>, raised |-> "ParseException"]

ParseText(lines) == ParseLines(lines, <<>>, <<>>, FALSE)

\* Suite(def_file) on the regenerated text
Rebuild(lines) ==
    LET p == ParseText(lines)
    IN IF p.raised # "" THEN Raise(EmptyHeap, p.raised) ELSE Build(p.d)

\* ---------------------------------------------------------- actions
Call(op, raised, node, result) ==
    [op |-> op, raised |-> raised, node |-> node, result |-> result,
     arg |-> <<>>, value |-> NoValue]

CallWith(op, raised, node, result, arg) ==
    [op |-> op, raised |-> raised, node |-> node, result |-> result,
     arg |-> arg, value |-> NoValue]

CallValue(op, raised, node, value) ==
    [op |-> op, raised |-> raised, node |-> node, result |-> NoneRef,
     arg |-> <<>>, value |-> value]

NoCall == Call("", "", NoneRef, NoneRef)

NoQuery == [node |-> NoneRef, path |-> <<>>]

\* ------------------------------------------------------------- Meter
\* an argument left out of Meter(name, the_min, the_max, the_mark)
Omitted == -1

MeterDefaultMinimum == 0
MeterDefaultMaximum == 100
MeterDefaultMark == 100

NoMeter == [made |-> FALSE, minimum |-> 0, maximum |-> 0, mark |-> 0]

\* Meter.mark = value
SetMark(m, value) ==
    IF m.minimum <= value /\ value <= m.maximum
    THEN [m EXCEPT !.mark = value]
    ELSE m

\* Meter.__init__: the class attributes are the defaults; the mark goes
\* through the setter, after minimum and maximum are assigned
NewMeter(the_min, the_max, the_mark) ==
    LET m == [made |-> TRUE,
              minimum |-> IF the_min # Omitted THEN the_min
                          ELSE MeterDefaultMinimum,
              maximum |-> IF the_max # Omitted THEN the_max
                          ELSE MeterDefaultMaximum,
              mark |-> MeterDefaultMark]
    IN IF the_mark # Omitted THEN SetMark(m, the_mark) ELSE m


Untouched == meter = NoMeter /\ text = NoText /\ rebuilt = EmptyHeap

InitTree ==
    /\ phase = "new"
    /\ parse_obj \in TreeDefs
    /\ heap = EmptyHeap
    /\ last = NoCall
    /\ query = NoQuery
    /\ Untouched

Construct ==
    /\ phase = "new"
    /\ LET r == Build(parse_obj) IN
          /\ phase' = IF r.raised = "" THEN "built" ELSE "failed"
          /\ heap' = r.h
          /\ last' = Call("Suite", r.raised, SuiteRef, NoneRef)
    /\ UNCHANGED <<parse_obj, query, meter, text, rebuilt>>

NewTask ==
    /\ phase = "built"
    /\ Len(heap.kind) < Len(parse_obj) + MaxNew
    /\ \E nm \in Names : heap' = NewTaskByName(heap, nm)
    /\ last' = Call("Task", "", Len(heap.kind) + 1, NoneRef)
    /\ UNCHANGED <<phase, parse_obj, query, meter, text, rebuilt>>

add_task ==
    /\ phase = "built"
    /\ \E f \in FamiliesOf(heap), t \in TasksOf(heap) :
          LET r == AddTask(heap, f, t) IN
          /\ heap' = r.h
          /\ last' = Call("add_task", r.raised, f, t)
    /\ UNCHANGED <<phase, parse_obj, query, meter, text, rebuilt>>

remove_task ==
    /\ phase = "built"
    /\ \E f \in FamiliesOf(heap), t \in TasksOf(heap) :
          LET r == RemoveTask(heap, f, t) IN
          /\ heap' = r.h
          /\ last' = Call("remove_task", r.raised, f, t)
    /\ UNCHANGED <<phase, parse_obj, query, meter, text, rebuilt>>

set_name ==
    /\ phase = "built"
    /\ \E n \in FamiliesOf(heap) \cup TasksOf(heap), nm \in Names :
          /\ heap' = SetName(heap, n, nm)
          /\ last' = Call("set_name", "", n, NoneRef)
    /\ UNCHANGED <<phase, parse_obj, query, meter, text, rebuilt>>

NextTree == Construct \/ NewTask \/ add_task \/ remove_task

\* Suite construction followed by add_task / remove_task calls
SpecTree == InitTree /\ [][NextTree]_vars

NextRename == Construct \/ NewTask \/ add_task \/ remove_task \/ set_name

\* the same, with renames
SpecRename == InitTree /\ [][NextRename]_vars

\* path strings handed to get_node
MaxPathLen == 3

Segments == Names \cup {"..", ".", ""}

RECURSIVE SeqsOfLen(_, _)
SeqsOfLen(S, n) ==
    IF n = 0 THEN {<<>>}
    ELSE {Append(q, x) : q \in SeqsOfLen(S, n - 1), x \in S}

PathInputs == UNION {SeqsOfLen(Segments, n) : n \in 1..MaxPathLen}

InitResolve ==
    /\ phase = "new"
    /\ parse_obj \in TreeDefs
    /\ heap = EmptyHeap
    /\ last = NoCall
    /\ query \in [node : DOMAIN parse_obj, path : PathInputs]
    /\ Untouched

get_node ==
    /\ phase = "built"
    /\ query.node # NoneRef
    /\ LET r == GetNode(heap, query.node, query.path) IN
          last' = CallWith("get_node", r.raised, query.node, r.result,
                           query.path)
    /\ UNCHANGED <<phase, parse_obj, heap, query, meter, text, rebuilt>>

NextResolve == Construct \/ remove_task \/ get_node

\* Suite construction, then lookups from attached and detached nodes
SpecResolve == InitResolve /\ [][NextResolve]_vars

\* ----- trigger texts
\* Expression trees of the trigger language and the text of each.  Only
\* trees whose text parses back to them are listed: an OR below an AND is
\* parenthesised.
Cmp(path, op, lit) == [k |-> "cmp", path |-> path, op |-> op, lit |-> lit]
Bin(op, l, r) == [k |-> "bin", op |-> op, l |-> l, r |-> r]
Paren(e) == [k |-> "paren", e |-> e]

TriggerPaths == {<<"a">>, <<"b">>, <<"a", "b">>}

Cmps == {Cmp(p, op, lit) : p \in TriggerPaths, op \in {"==", "!="},
                          lit \in {"complete", "unknown"}}

SimpleCmps == {Cmp(p, op, "complete") : p \in {<<"a">>, <<"b">>},
                                       op \in {"==", "!="}}

EqCmps == {Cmp(p, "==", "complete") : p \in {<<"a">>, <<"b">>}}

TriggerASTs ==
    Cmps
    \cup {Bin(op, l, r) : op \in {"AND", "OR"}, l \in SimpleCmps,
                          r \in SimpleCmps}
    \cup {Bin("OR", c1, Bin("AND", c2, c3)) :
             c1 \in EqCmps, c2 \in EqCmps, c3 \in EqCmps}
    \cup {Bin("AND", Paren(Bin("OR", c1, c2)), c3) :
             c1 \in EqCmps, c2 \in EqCmps, c3 \in EqCmps}

AddOpen(toks) == [toks EXCEPT ![1].open = @ + 1]
AddClose(toks) == [toks EXCEPT ![Len(toks)].close = @ + 1]

RECURSIVE Render(_)
Render(e) ==
    CASE e.k = "cmp" -> <<Tok(0, e.path, 0), Word(e.op), Word(e.lit)>>
      [] e.k = "bin" -> Render(e.l) \o <<Word(e.op)>> \o Render(e.r)
      [] e.k = "paren" -> AddClose(AddOpen(Render(e.e)))

WithTrigger(d, n, toks) == [d EXCEPT ![n].trigger = toks]

\* the trigger clause is in the block declared last
TriggerDefs ==
    {WithTrigger(d, Len(d), Render(e)) : <<d, e>> \in
        UNION {{<<d, e>> : e \in TriggerASTs} :
                  d \in TreeDefs \ DefsOfSize(0)}}

Statuses == {"unknown", "complete"}

InitTrigger ==
    /\ phase = "new"
    /\ parse_obj \in TriggerDefs
    /\ heap = EmptyHeap
    /\ last = NoCall
    /\ query = NoQuery
    /\ Untouched

\* node.status = st
set_status ==
    /\ phase = "built"
    /\ \E n \in FamiliesOf(heap) \cup TasksOf(heap), st \in Statuses :
          /\ heap.status[n] # st
          /\ heap' = [heap EXCEPT !.status[n] = st]
          /\ last' = Call("status", "", n, NoneRef)
    /\ UNCHANGED <<phase, parse_obj, query, meter, text, rebuilt>>

evalute_trigger ==
    /\ phase = "built"
    /\ \E n \in FamiliesOf(heap) \cup TasksOf(heap) :
          LET r == EvaluteTrigger(heap, n) IN
          last' = CallValue("evalute_trigger", r.raised, n, r.value)
    /\ UNCHANGED <<phase, parse_obj, heap, query, meter, text, rebuilt>>

NextTrigger == Construct \/ set_status \/ evalute_trigger

\* Suite construction from a definition with one trigger, status changes and
\* evaluations
SpecTrigger == InitTrigger /\ [][NextTrigger]_vars

\* ----- in-limits
InLimitPaths ==
    {<<".">>, <<"..">>, <<"a">>, <<"b">>, <<"..", "a">>, <<"..", "..">>,
     <<"", "a">>, <<"", "">>}

LimitNames == {"x", "y"}

FamilyBlocks(d) == {n \in DOMAIN d : d[n].kind = "family"}

\* one family declares "limit x 1" (or none does: g = NoneRef), one family
\* has one inlimit clause
WithLimits(d, g, f, p, nm) ==
    [n \in DOMAIN d |->
        [d[n] EXCEPT
           !.limits = IF n = g THEN <<[name |-> "x", cap |-> "1"]>> ELSE @,
           !.inlimits = IF n = f THEN <<[path |-> p, name |-> nm]>> ELSE @]]

InLimitDefs ==
    {WithLimits(q[1], q[2], q[3], q[4], q[5]) : q \in
        UNION {{d} \X (FamilyBlocks(d) \cup {NoneRef}) \X FamilyBlocks(d)
                   \X InLimitPaths \X LimitNames : d \in TreeDefs}}

InitInLimit ==
    /\ phase = "new"
    /\ parse_obj \in InLimitDefs
    /\ heap = EmptyHeap
    /\ last = NoCall
    /\ query = NoQuery
    /\ Untouched

NextInLimit == Construct

\* Suite construction from a definition with limit and inlimit clauses
SpecInLimit == InitInLimit /\ [][NextInLimit]_vars

\* ----- nodes constructed by name
VariableUpdates == {[k |-> <<"v">>], [k |-> <<"w">>]}

\* Task(name=nm, variables=upd)
TaskWithVariables ==
    /\ phase = "built"
    /\ Len(heap.kind) < Len(parse_obj) + MaxByName
    /\ \E nm \in Names, upd \in VariableUpdates :
          heap' = NewTaskWithVariables(heap, nm, upd)
    /\ last' = Call("Task", "", Len(heap.kind) + 1, NoneRef)
    /\ UNCHANGED <<phase, parse_obj, query, meter, text, rebuilt>>

\* Family(name=nm)
NewFamily ==
    /\ phase = "built"
    /\ Len(heap.kind) < Len(parse_obj) + MaxByName
    /\ \E nm \in Names : heap' = NewFamilyByName(heap, nm)
    /\ last' = Call("Family", "", Len(heap.kind) + 1, NoneRef)
    /\ UNCHANGED <<phase, parse_obj, query, meter, text, rebuilt>>

NextByName == Construct \/ TaskWithVariables \/ NewFamily \/ add_task

\* a built tree, nodes constructed by name beside it, and add_task calls
SpecByName == InitTree /\ [][NextByName]_vars

\* ----- round trips
RoundTripTriggers ==
    {<<>>} \cup {Render(Cmp(p, "==", "complete")) : p \in {<<"a">>, <<"b">>}}

VariableValues == {<<"v">>, <<"v", "w">>}

\* the last block may have a trigger; one block (or none: n = NoneRef) has
\* a variable, one family (or none) a limit
WithClauses(d, trig, n, value, g) ==
    [i \in DOMAIN d |->
        [d[i] EXCEPT
           !.trigger = IF i = Len(d) /\ i > 1 THEN trig ELSE @,
           !.variables = IF i = n THEN <<[name |-> "k", value |-> value]>>
                         ELSE @,
           !.limits = IF i = g THEN <<[name |-> "x", cap |-> "1"]>> ELSE @]]

RoundTripDefs ==
    {WithClauses(q[1], q[2], q[3], q[4], q[5]) : q \in
        UNION {{d} \X RoundTripTriggers \X (DOMAIN d \cup {NoneRef})
                   \X VariableValues \X (FamilyBlocks(d) \cup {NoneRef}) :
                 d \in TreeDefs}}

InitRoundTrip ==
    /\ phase = "new"
    /\ parse_obj \in RoundTripDefs
    /\ heap = EmptyHeap
    /\ last = NoCall
    /\ query = NoQuery
    /\ Untouched

cdp_definition ==
    /\ phase = "built"
    /\ LET r == CdpDefinition(heap) IN
          /\ text' = r.text
          /\ last' = Call("cdp_definition", r.raised, SuiteRef, NoneRef)
    /\ UNCHANGED <<phase, parse_obj, heap, query, meter, rebuilt>>

rebuild ==
    /\ phase = "built"
    /\ text # NoText
    /\ LET r == Rebuild(text) IN
          /\ rebuilt' = r.h
          /\ last' = Call("rebuild", r.raised, SuiteRef, NoneRef)
    /\ UNCHANGED <<phase, parse_obj, heap, query, meter, text>>

NextRoundTrip == Construct \/ cdp_definition \/ rebuild

\* build, regenerate the text, build again from it
SpecRoundTrip == InitRoundTrip /\ [][NextRoundTrip]_vars

\* ----- meters
MeterValues == {0, 20, 50, 80, 100, 150}

InitMeter ==
    /\ phase = "new"
    /\ parse_obj = <<>>
    /\ heap = EmptyHeap
    /\ last = NoCall
    /\ query = NoQuery
    /\ Untouched

Meter ==
    /\ \E the_min \in MeterValues \cup {Omitted},
          the_max \in MeterValues \cup {Omitted},
          the_mark \in MeterValues \cup {Omitted} :
          meter' = NewMeter(the_min, the_max, the_mark)
    /\ last' = Call("Meter", "", NoneRef, NoneRef)
    /\ UNCHANGED <<phase, parse_obj, heap, query, text, rebuilt>>

set_mark ==
    /\ meter.made
    /\ \E value \in MeterValues : meter' = SetMark(meter, value)
    /\ last' = Call("mark", "", NoneRef, NoneRef)
    /\ UNCHANGED <<phase, parse_obj, heap, query, text, rebuilt>>

NextMeter == Meter \/ set_mark

\* construction of meters and assignments to mark
SpecMeter == InitMeter /\ [][NextMeter]_vars

\* ------------------------------------------------------------ claims
IsPrefix(p, q) == Len(p) <= Len(q) /\ SubSeq(q, 1, Len(p)) = p

\* the nodes a family owns, directly or not
RECURSIVE Descendants(_, _)
Descendants(h, f) ==
    LET direct == Range(h.tasks[f]) \cup Range(h.families[f])
    IN direct \cup UNION {Descendants(h, c) : c \in Range(h.families[f])}

\* C1: in every tree built by Suite construction and after any add_task /
\* remove_task calls, the Suite's path is "/" and every node with a parent has
\* path = path(parent) + "/" + name, with a single slash under the Suite.
C1_PathInvariant ==
    phase = "built" =>
       /\ heap.path[SuiteRef] = <<"", "">>
       /\ \A n \in FamiliesOf(heap) \cup TasksOf(heap) :
             heap.parent[n] # NoneRef =>
                heap.path[n] =
                   IF heap.kind[heap.parent[n]] = "suite"
                   THEN <<"", heap.name[n]>>
                   ELSE Append(heap.path[heap.parent[n]], heap.name[n])

\* a task constructed by name has been attached to a family that is itself
\* below another family
C1_Witness ==
    /\ phase = "built"
    /\ last.op = "add_task"
    /\ \E t \in TasksOf(heap) :
          /\ t > Len(parse_obj)
          /\ heap.parent[t] # NoneRef
          /\ Len(heap.path[t]) = 4

\* C2: renaming a Family updates the path of every descendant: after the
\* rename each descendant's path starts with the Family's new path.
C2_RenameCascades ==
    (phase = "built" /\ last.op = "set_name"
                     /\ heap.kind[last.node] = "family") =>
       \A d \in Descendants(heap, last.node) :
          IsPrefix(heap.path[last.node], heap.path[d])

C9_Consistent ==
    phase = "built" =>
       /\ \A t \in TasksOf(heap), f \in FamiliesOf(heap) :
             /\ (t \in Range(heap.tasks[f])) <=> (heap.parent[t] = f)
             /\ Cardinality({i \in DOMAIN heap.tasks[f] :
                                heap.tasks[f][i] = t}) <= 1
       /\ \A t \in TasksOf(heap) :
             Cardinality({f \in FamiliesOf(heap) :
                             t \in Range(heap.tasks[f])}) <= 1

C9_FailedCallFrame ==
    (last'.raised # "" /\ last'.op \in {"add_task", "remove_task"}) =>
       /\ heap'.tasks = heap.tasks
       /\ heap'.parent = heap.parent

\* C9: after any add_task / remove_task calls on the families of a tree, a
\* task is in F.tasks iff its parent is F, at most once, and in at most one
\* family; a call that raises leaves every tasks list and parent link as it
\* was.
C9_TasksMatchParents == []C9_Consistent /\ [][C9_FailedCallFrame]_vars

\* a task declared in one family has been moved to another by add_task
C9_Witness ==
    /\ phase = "built"
    /\ last.op = "add_task"
    /\ last.raised = ""
    /\ last.result <= Len(parse_obj)
    /\ heap.parent[last.result] = last.node
    /\ parse_obj[last.result].up # last.node

\* The resolver the specification describes: segments are consumed left to
\* right from the base; '..' moves to the parent, '' and '.' stay, any other
\* segment selects the first child with that name.
FirstChild(h, base, nm) ==
    LET node_list == NodeList(h, base)
        hits == {i \in DOMAIN node_list : h.name[node_list[i]] = nm}
    IN IF h.kind[base] = "task" \/ hits = {} THEN NoneRef
       ELSE node_list[CHOOSE i \in hits : \A j \in hits : i <= j]

RECURSIVE Walk(_, _, _)
Walk(h, base, segs) ==
    IF base = NoneRef THEN NoneRef
    ELSE IF segs = <<>> THEN base
    ELSE IF Head(segs) = ".." THEN Walk(h, h.parent[base], Tail(segs))
    ELSE IF Head(segs) \in {"", "."} THEN Walk(h, base, Tail(segs))
    ELSE Walk(h, FirstChild(h, base, Head(segs)), Tail(segs))

Resolve(h, n, p) ==
    IF StartsWithSlash(p) THEN Walk(h, GetSuite(h, n), Tail(p))
    ELSE Walk(h, IF h.parent[n] # NoneRef THEN h.parent[n]
                 ELSE GetSuite(h, n), p)

\* C3: get_node(p) from any node returns the node of the reference resolver
\* (left to right, first match at each level).  Stated for the lookups that
\* return.
C3_GetNodeIsResolver ==
    (phase = "built" /\ last.op = "get_node" /\ last.raised = "") =>
       last.result = Resolve(heap, last.node, last.arg)

\* C10: a lookup never raises: it returns a node or None.
C10_LookupNeverRaises ==
    (phase = "built" /\ last.op = "get_node") => last.raised = ""

\* The standard interpretation of a trigger tree owned by node n, at the
\* current statuses of the nodes its paths name.
RECURSIVE Std(_, _, _)
Std(h, n, e) ==
    CASE e.k = "cmp" ->
            LET st == h.status[GetNode(h, n, e.path).result]
            IN IF e.op = "==" THEN st = e.lit ELSE st # e.lit
      [] e.k = "bin" ->
            IF e.op = "AND" THEN Std(h, n, e.l) /\ Std(h, n, e.r)
            ELSE Std(h, n, e.l) \/ Std(h, n, e.r)
      [] e.k = "paren" -> Std(h, n, e.e)

Linked(h, n) == NoneRef \notin Range(h.trigger[n].nodes)

\* C4: evalute_trigger of a linked trigger built from == and != comparisons,
\* AND, OR and parentheses returns the standard boolean value at the current
\* statuses of the referenced nodes.
C4_EvaluateIsStandard ==
    (phase = "built" /\ last.op = "evalute_trigger"
                     /\ Linked(heap, last.node)) =>
       /\ last.raised = ""
       /\ \A e \in TriggerASTs :
             Render(e) = parse_obj[last.node].trigger =>
                Truthy(last.value) = Std(heap, last.node, e)

\* C5: no Suite is returned in which a trigger holds an operand that did not
\* resolve to a node: the build fails at link time instead.
C5_UnresolvedFailsAtLink ==
    phase = "built" =>
       \A n \in FamiliesOf(heap) \cup TasksOf(heap) : Linked(heap, n)

\* C7: every Meter has minimum <= mark <= maximum after construction with any
\* arguments and after any assignments to mark.  Stated for the meters whose
\* range is not empty.
C7_MarkInRange ==
    (meter.made /\ meter.minimum <= meter.maximum) =>
       (meter.minimum <= meter.mark /\ meter.mark <= meter.maximum)

\* An in-limit clause misses when its path names no node of the definition
\* or the family it names declares no limit of that name.
InLimitMisses(d, f, c) ==
    LET target == Resolve(Structure(d), f, c.path)
    IN \/ target = NoneRef
       \/ /\ d[target].kind = "family"
          /\ c.name \notin {d[target].limits[i].name :
                               i \in DOMAIN d[target].limits}

\* C8: an in-limit clause that misses is recorded with a null limit, and the
\* construction goes on.  Stated for the definitions all of whose in-limit
\* clauses miss.
C8_InLimitMissIsNull ==
    (phase # "new"
       /\ \A f \in DOMAIN parse_obj : \A i \in DOMAIN parse_obj[f].inlimits :
             InLimitMisses(parse_obj, f, parse_obj[f].inlimits[i])) =>
       /\ phase = "built"
       /\ \A f \in DOMAIN parse_obj :
             /\ Len(heap.in_limits[f]) = Len(parse_obj[f].inlimits)
             /\ \A i \in DOMAIN heap.in_limits[f] :
                   heap.in_limits[f][i].limit = NoLimit

C11_Frame ==
    /\ last'.op = "Task" =>
          \A m \in Refs(heap) : heap'.variables[m] = heap.variables[m]
    /\ last'.op = "add_task" =>
          \A m \in FamiliesOf(heap) \ {last'.node, heap.parent[last'.result]} :
             heap'.tasks[m] = heap.tasks[m]

\* C11: every node owns its variables and its tasks list: constructing
\* Task(name=..., variables=...) leaves the variables of every node that
\* existed before as they were, and F.add_task(t) leaves the tasks of every
\* family other than F and t's former parent as they were.
C11_OwnContainers == [][C11_Frame]_vars

\* What the round trip must keep of a node: names and hierarchy, variables,
\* limits, and what the trigger evaluates to (sampled with every node
\* unknown and with every node complete).
EvalWithAll(h, n, st) ==
    LET r == EvaluteTrigger([h EXCEPT !.status = [m \in DOMAIN @ |-> st]], n)
    IN [raised |-> r.raised, truth |-> Truthy(r.value)]

RECURSIVE TreeForm(_, _)
TreeForm(h, n) ==
    [kind |-> h.kind[n], name |-> h.name[n],
     variables |-> h.variables[n], limits |-> h.limits[n],
     trigger |-> <<EvalWithAll(h, n, "unknown"), EvalWithAll(h, n, "complete")>>,
     tasks |-> [i \in DOMAIN h.tasks[n] |-> TreeForm(h, h.tasks[n][i])],
     families |-> [i \in DOMAIN h.families[n] |->
                     TreeForm(h, h.families[n][i])]]

\* C6: the tree rebuilt from the text cdp_definition() regenerates is
\* structurally equal to the tree the text was generated from.
C6_RoundTrip ==
    (phase = "built" /\ last.op = "rebuild") =>
       /\ last.raised = ""
       /\ TreeForm(rebuilt, SuiteRef) = TreeForm(heap, SuiteRef)

====
